---- MODULE Spec2Model ----
(***************************************************************************)
(* A model of the FastfoodNutritionAnalyzer ETL and enrichment pipeline:   *)
(* DataLoader (src/src/data_loader.py), TranslatorModule                   *)
(* (src/src/translator.py) and Database.populate_item_gr_column            *)
(* (src/src/database.py).                                                  *)
(*                                                                         *)
(* Item names are sequences of characters over a small alphabet that has   *)
(* one member of every character class the code distinguishes.  Tables are *)
(* sequences of rows; NaN and NaNum stand for a missing text value and a     *)
(* missing number.  Memory sizes are whole bytes and the memory fraction   *)
(* is a pair <<numerator, denominator>>; floating-point rounding is not    *)
(* modelled.                                                               *)
(***************************************************************************)
EXTENDS Integers, Sequences, FiniteSets, TLC

VARIABLES
    \* ---- DataLoader.clean_item_name applied to a string
    raw,            \* the string first given to clean_item_name
    item_name,      \* the current string (result of the last call)
    prev_name,      \* the argument of the last call
    ncalls,         \* how many times the function under study has been applied
    \* ---- DataLoader.drop_nulls applied to a DataFrame
    df,             \* the input DataFrame (a sequence of rows)
    df_cleaned,     \* the returned DataFrame, <<>> before the call
    \* ---- DataLoader.calculate_chunk_size
    mem,            \* the inputs: rows, per-row bytes, available bytes, fraction
    plan,           \* the returned chunk size, NONE before the call
    eplan,          \* what TranslatorModule.calculate_chunk_size returned, or NONE
    \* ---- DataLoader.load_csv_to_db (chunk_size, pos, chunk_index and err are
    \*      also the chunk loop of Database.populate_item_gr_column)
    csv_file,       \* the rows of the source file
    chunk_size,     \* the chunk size in use, NONE before it is computed
    pos,            \* the number of source rows read so far
    chunk_index,    \* the index of the next chunk
    lpc,            \* "idle", "start", "reading", "done" or "failed"
    err,            \* why the run failed, "" if it has not
    failed_chunk,   \* the index of the chunk whose insert failed, NONE if none
    log,            \* the error records load_csv_to_db has logged, in order
    \* ---- the SQLite table fastfood
    fastfood,       \* the table as the connection sees it
    durable,        \* the table as last committed
    \* ---- TranslatorModule and Database.populate_item_gr_column
    dict_translations,  \* the curated dictionary: item -> translation
    table0,         \* the table when populate_item_gr_column was called
    cur_chunk,      \* the chunk being processed, with its item_gr column
    ti,             \* the row of the chunk being translated or updated
    epc,            \* "idle", "start", "fetch", "translate", "update", "done", "failed"
    calls,          \* the words given to the external translator, in order
    fault,          \* whether a call of the external translator has failed
    \* ---- Classifier and Database.classify_items_and_add_category
    n_clusters,     \* the cluster count the Classifier was constructed with
    rng,            \* the generator: the initial centroids each seed gives
    cluster_runs,   \* the cluster ids of the rows clustered, one entry per run
    class_table0,   \* the table before the first classification
    cpc,            \* "idle", "ready" or "failed"
    \* ---- main and Database.export_classification_to_csv
    mpc,            \* "idle", "ingest", "dict", "enrich", "classify", "export",
                    \* "done" or "failed"
    artifact        \* the lines of the export file, <<>> if there is none

cleanVars == <<raw, item_name, prev_name, ncalls>>
dropVars  == <<df, df_cleaned>>
planVars  == <<mem, plan, eplan>>
loadVars  == <<csv_file, chunk_size, pos, chunk_index, lpc, err, failed_chunk, log>>
dbVars    == <<fastfood, durable>>
enrichVars == <<dict_translations, table0, cur_chunk, ti, epc, calls, fault>>
classVars == <<n_clusters, rng, cluster_runs, class_table0, cpc>>
mainVars  == <<mpc, artifact>>
vars      == <<cleanVars, dropVars, planVars, loadVars, dbVars, enrichVars,
               classVars, mainVars>>

\* A missing text value (NaN / None / SQL NULL in a text column), a missing
\* number, and an integer that is not there yet.
NaN   == <<"NaN">>
NaNum == 0 - 1
NONE  == 0 - 1

-----------------------------------------------------------------------------
(* Bounds of the model. *)
MaxNameLen    == 4      \* longest raw item name given to clean_item_name
MaxCleanCalls == 2      \* clean_item_name is applied at most this many times
MaxDfRows     == 3      \* most rows of a DataFrame given to drop_nulls
MaxPlanRows   == 4      \* most source rows given to calculate_chunk_size
MaxRowBytes   == 4      \* largest per-row footprint, in bytes
MaxAvailBytes == 8      \* largest available memory, in bytes
MaxCsvRows    == 3      \* most rows of a source file given to load_csv_to_db
MaxLoadRowBytes == 2    \* largest per-row footprint during a load
MaxLoadAvail  == 4      \* largest available memory during a load
MaxTableRows  == 4      \* most rows of the table when it is enriched
MaxClassRows  == 4      \* most rows of the table when it is classified

-----------------------------------------------------------------------------
(* Characters. *)
Quote  == "\""
Digit6 == "6"
LetterA == "a"
Space  == " "
Tab    == "\t"
Reg    == "(R)"         \* the trademark symbol
Star   == "*"
Comma  == ","

Digits     == {Digit6}
Letters    == {LetterA}
Whitespace == {Space, Tab}
Unwanted   == {Reg, Star, Comma}
Chars      == {Quote} \cup Digits \cup Letters \cup Whitespace \cup Unwanted

Strings(n) == UNION {[1..k -> Chars] : k \in 0..n}

-----------------------------------------------------------------------------
(* Python string primitives used by clean_item_name. *)

RECURSIVE lstrip(_)
lstrip(s) ==
    IF s # <<>> /\ Head(s) \in Whitespace THEN lstrip(Tail(s)) ELSE s

RECURSIVE rstrip(_)
rstrip(s) ==
    IF s # <<>> /\ s[Len(s)] \in Whitespace
    THEN rstrip(SubSeq(s, 1, Len(s) - 1))
    ELSE s

\* str.strip()
strip(s) == rstrip(lstrip(s))

\* str.startswith('"') and str.endswith('"')
startswith_quote(s) == s # <<>> /\ s[1] = Quote
endswith_quote(s)   == s # <<>> /\ s[Len(s)] = Quote

\* str.replace(ch, '')
replace(s, ch) == SelectSeq(s, LAMBDA c : c # ch)

\* re.search(r'\d+"$', s): the string ends with a digit followed by a quote
size_marker_NoDigit(s) == FALSE

size_marker(s) ==
    Len(s) >= 2 /\ s[Len(s)] = Quote /\ s[Len(s) - 1] \in Digits

\* re.sub(r'\s+', ' ', s): every maximal run of whitespace becomes one space
RECURSIVE re_sub_spaces(_)
re_sub_spaces(s) ==
    IF s = <<>> THEN <<>>
    ELSE IF Head(s) \in Whitespace
         THEN <<Space>> \o re_sub_spaces(lstrip(s))
         ELSE <<Head(s)>> \o re_sub_spaces(Tail(s))

-----------------------------------------------------------------------------
(* DataLoader.clean_item_name, statement by statement. *)

\* lines 70-71
strip_leading_quote(s) ==
    IF startswith_quote(s) THEN strip(Tail(s)) ELSE s

\* lines 74-75
strip_trailing_quote(s) ==
    IF endswith_quote(s) /\ ~size_marker(s)
    THEN strip(SubSeq(s, 1, Len(s) - 1))
    ELSE s

\* line 78
remove_unwanted_KeepComma(s) == strip(replace(replace(s, Reg), Star))

remove_unwanted(s) == strip(replace(replace(replace(s, Reg), Star), Comma))

\* line 81
normalize_spaces(s) == strip(re_sub_spaces(s))

clean_item_name(s) ==
    normalize_spaces(remove_unwanted(strip_trailing_quote(strip_leading_quote(s))))

-----------------------------------------------------------------------------
(* Idle values of the variables a specification does not use. *)
CleanIdle == raw = <<>> /\ item_name = <<>> /\ prev_name = <<>> /\ ncalls = 0
DropIdle  == df = <<>> /\ df_cleaned = <<>>
PlanIdle  == mem = <<>> /\ plan = NONE /\ eplan = NONE
LoadIdle  ==
    /\ csv_file = <<>> /\ chunk_size = NONE /\ pos = 0 /\ chunk_index = 0
    /\ lpc = "idle" /\ err = "" /\ failed_chunk = NONE /\ log = <<>>
DbIdle    == fastfood = <<>> /\ durable = <<>>
EnrichIdle ==
    /\ dict_translations = <<>> /\ table0 = <<>> /\ cur_chunk = <<>> /\ ti = 0
    /\ epc = "idle" /\ calls = <<>> /\ fault = FALSE
ClassIdle ==
    /\ n_clusters = 0 /\ rng = <<>> /\ cluster_runs = <<>> /\ class_table0 = <<>>
    /\ cpc = "idle"
MainIdle  == mpc = "idle" /\ artifact = <<>>

-----------------------------------------------------------------------------
(* SpecClean: clean_item_name applied, and applied again, to any string. *)

InitClean ==
    /\ raw \in Strings(MaxNameLen)
    /\ item_name = raw
    /\ prev_name = raw
    /\ ncalls = 0
    /\ DropIdle /\ PlanIdle /\ LoadIdle /\ DbIdle /\ EnrichIdle
    /\ ClassIdle /\ MainIdle

CleanItemName ==
    /\ ncalls < MaxCleanCalls
    /\ prev_name' = item_name
    /\ item_name' = clean_item_name(item_name)
    /\ ncalls' = ncalls + 1
    /\ UNCHANGED <<raw, dropVars, planVars, loadVars, dbVars, enrichVars>>
    /\ UNCHANGED <<classVars, mainVars>>

NextClean == CleanItemName

SpecClean == InitClean /\ [][NextClean]_vars

-----------------------------------------------------------------------------
(* Properties of clean_item_name (SpecClean). *)

QuoteCount(s) == Len(SelectSeq(s, LAMBDA c : c = Quote))
AlnumOf(s)    == SelectSeq(s, LAMBDA c : c \in Digits \cup Letters)

\* C1: clean_item_name is idempotent: cleaning a cleaned name changes nothing.
C1_Idempotent == ncalls = 2 => item_name = prev_name

\* C1: a cleaned name that a second cleaning changes (two leading quotes).
C1_SecondCallChanges ==
    /\ ncalls = 2
    /\ raw = <<Quote, Quote, LetterA>>
    /\ prev_name = <<Quote, LetterA>>
    /\ item_name = <<LetterA>>

\* The index of the last character of s that is not whitespace, 0 if none.
LastNonSpace(s) ==
    LET I == {i \in 1..Len(s) : s[i] \notin Whitespace}
    IN  IF I = {} THEN 0 ELSE CHOOSE i \in I : \A j \in I : j <= i

\* The input starts with a quote.
LeadQuote(s) == Len(s) >= 1 /\ s[1] = Quote

\* The input's last character is a quote that no digit precedes.
TrailQuoteOfInput(s) ==
    /\ Len(s) >= 1 /\ s[Len(s)] = Quote
    /\ ~(Len(s) >= 2 /\ s[Len(s) - 1] \in Digits)

\* The positions of the input the claim as written lets clean_item_name remove.
RemovablePositions(s) ==
    (IF LeadQuote(s) THEN {1} ELSE {}) \cup
    (IF TrailQuoteOfInput(s) THEN {Len(s)} ELSE {})

\* C2 as written: only the first quote, and the last character when it is a
\* quote no digit precedes, are removed; every other quote is kept.
C2_OnlyFirstAndLastQuote ==
    ncalls >= 1 =>
        QuoteCount(item_name) =
            QuoteCount(prev_name) - Cardinality(RemovablePositions(prev_name))

\* After a leading quote is stripped the rest is trimmed, so the trailing quote
\* is then the last character that is not whitespace.
TrailQuoteAfterLead(s) ==
    LET r == IF LeadQuote(s) THEN Tail(s) ELSE s
        j == IF LeadQuote(s) THEN LastNonSpace(r) ELSE Len(r)
    IN  /\ j >= 1 /\ r[j] = Quote
        /\ ~(j >= 2 /\ r[j - 1] \in Digits)

\* C2 (amended): exactly one leading quote is stripped when the input starts
\* with one; one trailing quote is stripped when the input, or after a leading
\* quote was stripped the input without its trailing whitespace, ends with a
\* quote that no digit immediately precedes; no other quote is removed.  The
\* size marker 6" is kept and "a" loses both quotes.
C2_QuoteStripping ==
    /\ ncalls >= 1 =>
        QuoteCount(item_name) =
            QuoteCount(prev_name)
              - (IF LeadQuote(prev_name) THEN 1 ELSE 0)
              - (IF TrailQuoteAfterLead(prev_name) THEN 1 ELSE 0)
    /\ (ncalls = 1 /\ raw = <<Digit6, Quote, Space, LetterA>>) => item_name = raw
    /\ (ncalls = 1 /\ raw = <<Digit6, Quote>>) => item_name = raw
    /\ (ncalls = 1 /\ raw = <<Quote, LetterA, Quote>>) => item_name = <<LetterA>>

\* C2: a quoted name followed by a space loses both quotes.
C2_Witness ==
    /\ ncalls = 1
    /\ raw = <<Quote, LetterA, Quote, Space>>
    /\ item_name = <<LetterA>>

\* C3: the cleaned name has no trademark symbol, asterisk or comma, no two
\* adjacent whitespace characters (every whitespace left is one space), no
\* leading or trailing whitespace, and the letters and digits of the input in
\* their original order.
C3_SymbolsAndSpaces ==
    ncalls >= 1 =>
        /\ \A i \in 1..Len(item_name) : item_name[i] \notin Unwanted \cup {Tab}
        /\ \A i \in 1..(Len(item_name) - 1) :
               ~(item_name[i] \in Whitespace /\ item_name[i + 1] \in Whitespace)
        /\ item_name # <<>> =>
               item_name[1] \notin Whitespace /\ item_name[Len(item_name)] \notin Whitespace
        /\ AlnumOf(item_name) = AlnumOf(prev_name)

\* C3: a symbol and a tab between a letter and a digit.
C3_Witness ==
    /\ ncalls = 1
    /\ raw = <<LetterA, Star, Tab, Digit6>>
    /\ item_name = <<LetterA, Space, Digit6>>

-----------------------------------------------------------------------------
(* DataFrames: sequences of rows with the columns item and calories. *)

Columns == {"item", "calories"}

\* Raw item names as they appear in a source file.
RawNames == { <<Quote, LetterA, Quote>>, <<LetterA, Star, Tab, Digit6>> }

RowKinds == [item : RawNames \cup {NaN}, calories : {500, NaNum}]

DataFrames(n) == UNION {[1..k -> RowKinds] : k \in 0..n}

\* A row with no missing value in any column.
Missing == [item |-> NaN, calories |-> NaNum]
notna(row) == \A c \in Columns : row[c] # Missing[c]

\* DataLoader.drop_nulls: df.dropna()
drop_nulls_ItemOnly(d) == SelectSeq(d, LAMBDA row : row.item # NaN)

drop_nulls(d) == SelectSeq(d, notna)

-----------------------------------------------------------------------------
(* SpecDrop: drop_nulls applied to any DataFrame. *)

InitDrop ==
    /\ df \in DataFrames(MaxDfRows)
    /\ df_cleaned = <<>>
    /\ CleanIdle /\ PlanIdle /\ LoadIdle /\ DbIdle /\ EnrichIdle
    /\ ClassIdle /\ MainIdle

DropNulls ==
    /\ ncalls = 0
    /\ df_cleaned' = drop_nulls(df)
    /\ ncalls' = 1
    /\ UNCHANGED <<df, raw, item_name, prev_name, planVars, loadVars, dbVars>>
    /\ UNCHANGED enrichVars
    /\ UNCHANGED <<classVars, mainVars>>

NextDrop == DropNulls

SpecDrop == InitDrop /\ [][NextDrop]_vars

RECURSIVE IsSubseq(_, _)
IsSubseq(a, b) ==
    IF a = <<>> THEN TRUE
    ELSE IF b = <<>> THEN FALSE
    ELSE IF Head(a) = Head(b) THEN IsSubseq(Tail(a), Tail(b))
    ELSE IsSubseq(a, Tail(b))

\* C4: drop_nulls returns a subsequence of its input (no more rows, order
\* kept, rows unmodified) that holds every row without a missing value and no
\* row with one.
C4_DropNulls ==
    ncalls = 1 =>
        /\ Len(df_cleaned) <= Len(df)
        /\ IsSubseq(df_cleaned, df)
        /\ \A i \in 1..Len(df_cleaned) :
               df_cleaned[i].item # NaN /\ df_cleaned[i].calories # NaNum
        /\ Len(df_cleaned) =
               Cardinality({i \in 1..Len(df) :
                               df[i].item # NaN /\ df[i].calories # NaNum})

\* C4: the test's DataFrame: a complete row, a row without item, a row without
\* calories; only the first survives.
C4_Witness ==
    /\ ncalls = 1
    /\ Len(df) = 3
    /\ df[1].item # NaN /\ df[1].calories # NaNum
    /\ df[2].item = NaN /\ df[2].calories # NaNum
    /\ df[3].item # NaN /\ df[3].calories = NaNum
    /\ df_cleaned = <<df[1]>>

-----------------------------------------------------------------------------
(* DataLoader.calculate_chunk_size.  m.rows is the row count of the CSV,      *)
(* m.row_bytes the memory usage of its first row, m.avail the available      *)
(* memory, m.frac = <<numerator, denominator>> the memory fraction.          *)

Fractions == { <<1, 4>>, <<1, 2>>, <<1, 1>> }

MemInputs(maxRows, maxRowBytes, maxAvail) ==
    [rows : 0..maxRows, row_bytes : 1..maxRowBytes, avail : 1..maxAvail,
     frac : Fractions]

\* int(x / y) for x >= 0, y > 0
IntDiv(x, y) == x \div y

DataLoader_calculate_chunk_size(m) ==
    LET csv_size == m.row_bytes * m.rows
    IN  IF csv_size < m.avail
        THEN m.rows
        ELSE IntDiv(m.frac[1] * m.avail, m.frac[2] * m.row_bytes)

Max(a, b) == IF a >= b THEN a ELSE b

\* TranslatorModule.calculate_chunk_size: m.row_bytes is the memory usage of
\* the first row of the table; the row count is not consulted.
Translator_calculate_chunk_size(m) ==
    Max(IntDiv(m.frac[1] * m.avail, m.frac[2] * m.row_bytes), 1)

-----------------------------------------------------------------------------
(* SpecPlan: both calculate_chunk_size methods applied to any memory        *)
(* situation.                                                               *)

InitPlan ==
    /\ mem \in MemInputs(MaxPlanRows, MaxRowBytes, MaxAvailBytes)
    /\ plan = NONE /\ eplan = NONE
    /\ CleanIdle /\ DropIdle /\ LoadIdle /\ DbIdle /\ EnrichIdle
    /\ ClassIdle /\ MainIdle

CalculateChunkSize ==
    /\ ncalls = 0
    /\ plan' = DataLoader_calculate_chunk_size(mem)
    /\ ncalls' = 1
    /\ UNCHANGED <<mem, eplan, raw, item_name, prev_name, dropVars, loadVars, dbVars>>
    /\ UNCHANGED enrichVars
    /\ UNCHANGED <<classVars, mainVars>>

TranslatorCalculateChunkSize ==
    /\ mem # <<>> /\ epc = "idle" /\ eplan = NONE
    /\ eplan' = Translator_calculate_chunk_size(mem)
    /\ UNCHANGED <<mem, plan, cleanVars, dropVars, loadVars, dbVars, enrichVars>>
    /\ UNCHANGED <<classVars, mainVars>>

NextPlan == CalculateChunkSize \/ TranslatorCalculateChunkSize

SpecPlan == InitPlan /\ [][NextPlan]_vars

\* C5: calculate_chunk_size returns a chunk size of at least 1 for any positive
\* available memory, positive per-row footprint and fraction in (0, 1] (stated
\* here for a source of at least one row).
C5_ChunkSizeAtLeastOne ==
    (ncalls = 1 /\ mem.rows >= 1) => plan >= 1

-----------------------------------------------------------------------------
(* The table fastfood (Database.create_table) and DataLoader.load_csv_to_db. *)

Min(a, b) == IF a <= b THEN a ELSE b

\* One row of the table: id is AUTOINCREMENT, item_gr and category are not in
\* the source file and start NULL.
TableRow(id, row) ==
    [id |-> id, item |-> row.item, calories |-> row.calories,
     item_gr |-> NaN, category |-> NaN]

\* chunk.to_sql('fastfood', connection, if_exists='append', index=False)
to_sql(table, chunk) ==
    table \o [i \in 1..Len(chunk) |-> TableRow(Len(table) + i, chunk[i])]

\* The next chunk of pd.read_csv(csv_file, chunksize=size) after p rows.
read_chunk(file, p, size) == SubSeq(file, p + 1, Min(p + size, Len(file)))

\* chunk['item'].apply(self.clean_item_name) raises AttributeError when an item
\* is missing: a NaN is a float and has no startswith.
apply_raises(chunk) == \E i \in 1..Len(chunk) : chunk[i].item = NaN

apply_clean(chunk) ==
    [i \in 1..Len(chunk) |-> [chunk[i] EXCEPT !.item = clean_item_name(@)]]

\* Where load_csv_to_db goes when _insert_chunk raises: both except blocks
\* log and re-raise.
after_insert_error_Swallowed == "reading"

after_insert_error == "failed"

\* The path main gives load_csv_to_db.
CsvName == "data/fastfood.csv"

\* A record of logging.error: its message, the exception {e} it interpolates,
\* and the chunk index and source name it names (NONE and "": it names none).
\* The messages of lines 108 and 133 interpolate the exception only.
LogRecord(msg, exc) == [msg |-> msg, exc |-> exc, chunk |-> NONE, source |-> ""]

\* line 108
log_insert_error(exc) == LogRecord("Error inserting chunk into database", exc)

\* line 133
log_load_error(exc) == LogRecord("Error loading data from CSV", exc)

-----------------------------------------------------------------------------
(* SpecLoad: load_csv_to_db on any source file and memory situation. *)

InitLoad ==
    /\ csv_file \in DataFrames(MaxCsvRows)
    /\ mem \in {m \in MemInputs(MaxCsvRows, MaxLoadRowBytes, MaxLoadAvail) :
                    m.rows = Len(csv_file)}
    /\ plan = NONE /\ eplan = NONE
    /\ chunk_size = NONE /\ pos = 0 /\ chunk_index = 0
    /\ lpc = "start" /\ err = "" /\ failed_chunk = NONE /\ log = <<>>
    /\ CleanIdle /\ DropIdle /\ DbIdle /\ EnrichIdle
    /\ ClassIdle /\ MainIdle

\* lines 121-125: the chunk size is computed; pd.read_csv raises ValueError for
\* a chunksize below 1.
LoadStart ==
    /\ lpc = "start"
    /\ chunk_size' = DataLoader_calculate_chunk_size(mem)
    /\ IF chunk_size' >= 1
       THEN lpc' = "reading" /\ err' = ""
       ELSE lpc' = "failed" /\ err' = "chunksize"
    /\ log' = IF chunk_size' >= 1 THEN log
              ELSE Append(log, log_load_error("chunksize"))
    /\ UNCHANGED <<csv_file, pos, chunk_index, failed_chunk>>
    /\ UNCHANGED <<cleanVars, dropVars, planVars, dbVars, enrichVars>>
    /\ UNCHANGED <<classVars, mainVars>>

\* lines 125-127: a chunk is read and cleaning an item raises.
ChunkCleanRaises ==
    /\ lpc = "reading" /\ pos < Len(csv_file)
    /\ LET chunk == read_chunk(csv_file, pos, chunk_size)
       IN  /\ apply_raises(chunk)
           /\ pos' = pos + Len(chunk)
    /\ lpc' = "failed" /\ err' = "clean"
    /\ log' = Append(log, log_load_error("clean"))
    /\ UNCHANGED <<csv_file, chunk_size, chunk_index, failed_chunk>>
    /\ UNCHANGED <<cleanVars, dropVars, planVars, dbVars, enrichVars>>
    /\ UNCHANGED <<classVars, mainVars>>

\* lines 125-129: a chunk is read, cleaned, filtered and appended; to_sql
\* commits the append.
ChunkInserted ==
    /\ lpc = "reading" /\ pos < Len(csv_file)
    /\ LET chunk == read_chunk(csv_file, pos, chunk_size)
       IN  /\ ~apply_raises(chunk)
           /\ pos' = pos + Len(chunk)
           /\ fastfood' = to_sql(fastfood, drop_nulls(apply_clean(chunk)))
           /\ durable' = fastfood'
    /\ chunk_index' = chunk_index + 1
    /\ UNCHANGED <<csv_file, chunk_size, lpc, err, failed_chunk, log>>
    /\ UNCHANGED <<cleanVars, dropVars, planVars, enrichVars>>
    /\ UNCHANGED <<classVars, mainVars>>

\* lines 125-129, 105-109, 132-134: a chunk is read, cleaned and filtered, and
\* to_sql fails: it rolls its transaction back and the error is re-raised.
ChunkInsertFails ==
    /\ lpc = "reading" /\ pos < Len(csv_file)
    /\ LET chunk == read_chunk(csv_file, pos, chunk_size)
       IN  /\ ~apply_raises(chunk)
           /\ pos' = pos + Len(chunk)
    /\ fastfood' = durable
    /\ failed_chunk' = chunk_index
    /\ lpc' = after_insert_error /\ err' = "insert"
    /\ log' = log \o <<log_insert_error("insert"), log_load_error("insert")>>
    /\ UNCHANGED <<csv_file, chunk_size, chunk_index, durable>>
    /\ UNCHANGED <<cleanVars, dropVars, planVars, enrichVars>>
    /\ UNCHANGED <<classVars, mainVars>>

\* line 131: the source is exhausted.
LoadDone ==
    /\ lpc = "reading" /\ pos = Len(csv_file)
    /\ lpc' = "done"
    /\ UNCHANGED <<csv_file, chunk_size, pos, chunk_index, err, failed_chunk, log>>
    /\ UNCHANGED <<cleanVars, dropVars, planVars, dbVars, enrichVars>>
    /\ UNCHANGED <<classVars, mainVars>>

NextLoad ==
    \/ LoadStart
    \/ ChunkCleanRaises
    \/ ChunkInserted
    \/ ChunkInsertFails
    \/ LoadDone

SpecLoad == InitLoad /\ [][NextLoad]_vars

\* The table a source should leave: its complete rows, in order, cleaned.
ExpectedTable(rows) == to_sql(<<>>, apply_clean(SelectSeq(rows, notna)))

\* C6: with a chunk size of at least 1 and no append failure the ingest
\* succeeds, whatever rows are incomplete, and storage then holds exactly the
\* complete rows of the source, in order, with cleaned item names.
C6_IngestKeepsCompleteRows ==
    /\ lpc = "done" => fastfood = ExpectedTable(csv_file) /\ durable = fastfood
    /\ (lpc = "failed" /\ chunk_size >= 1) => err = "insert"

\* C7: when the append of chunk i fails the ingest has failed, only chunks
\* 0..i have been read, and storage holds exactly the survivors of chunks
\* 0..i-1, committed.
C7_AppendFailureAborts ==
    failed_chunk # NONE =>
        /\ lpc = "failed" /\ err = "insert"
        /\ chunk_index = failed_chunk
        /\ pos = Min((failed_chunk + 1) * chunk_size, Len(csv_file))
        /\ fastfood = ExpectedTable(SubSeq(csv_file, 1, failed_chunk * chunk_size))
        /\ durable = fastfood

\* C15: when the append of chunk i fails, a record the ingest logs names the
\* index i of the failing chunk and the source.
C15_ReportNamesChunk ==
    failed_chunk # NONE =>
        \E k \in 1..Len(log) :
            log[k].chunk = failed_chunk /\ log[k].source = CsvName

\* C7: the append of a later chunk fails after a chunk with a survivor was
\* committed, with source rows left unread.
C7_Witness ==
    /\ failed_chunk # NONE /\ failed_chunk >= 1
    /\ lpc = "failed"
    /\ Len(fastfood) >= 1
    /\ pos < Len(csv_file)

-----------------------------------------------------------------------------
(* TranslatorModule. *)

\* The length of the longest prefix of s without whitespace.
RECURSIVE WordLen(_)
WordLen(s) ==
    IF s = <<>> \/ Head(s) \in Whitespace THEN 0 ELSE 1 + WordLen(Tail(s))

\* str.split(): the maximal runs of characters that are not whitespace
RECURSIVE split(_)
split(s) ==
    LET t == lstrip(s)
        n == WordLen(t)
    IN  IF t = <<>> THEN <<>>
        ELSE <<SubSeq(t, 1, n)>> \o split(SubSeq(t, n + 1, Len(t)))

\* ' '.join(words)
RECURSIVE join(_)
join(words) ==
    IF words = <<>> THEN <<>>
    ELSE IF Len(words) = 1 THEN words[1]
    ELSE words[1] \o <<Space>> \o join(Tail(words))

\* The external translator's answer for one word: self.translator.translate(
\* word, dest='el').text.  The Greek of a word is the word tagged "el".
translator_translate(word) == <<"el">> \o word

\* The curated translation of an item in the curated CSV file.
Curated(item) == <<"curated">> \o item

\* TranslatorModule.google_translate_word_by_word.  fail_at is the call of the
\* external translator that raises (0: none does).  The result has the text
\* returned (ok) or says that the exception propagated, and the words given to
\* the external translator.
google_translate_word_by_word_PassThrough(item, fail_at) ==
    LET words == split(item)
    IN  [ok |-> TRUE,
         text |-> join([i \in 1..Len(words) |->
                          IF i = fail_at THEN words[i]
                          ELSE translator_translate(words[i])]),
         calls |-> words]

google_translate_word_by_word(item, fail_at) ==
    LET words == split(item)
    IN  IF fail_at \in 1..Len(words)
        THEN [ok |-> FALSE, text |-> NaN, calls |-> SubSeq(words, 1, fail_at)]
        ELSE [ok |-> TRUE,
              text |-> join([i \in 1..Len(words) |-> translator_translate(words[i])]),
              calls |-> words]

\* TranslatorModule.translate_item
translate_item_AlwaysGoogle(item, dict, fail_at) ==
    google_translate_word_by_word(item, fail_at)

translate_item(item, dict, fail_at) ==
    IF item \in DOMAIN dict
    THEN [ok |-> TRUE, text |-> dict[item], calls |-> <<>>]
    ELSE google_translate_word_by_word(item, fail_at)

-----------------------------------------------------------------------------
(* Database.populate_item_gr_column. *)

\* UPDATE fastfood SET item_gr = ? WHERE id = ?
update_item_gr(table, id, item_gr) ==
    [i \in 1..Len(table) |->
        IF table[i].id = id THEN [table[i] EXCEPT !.item_gr = item_gr]
        ELSE table[i]]

\* self.conn.commit() after a chunk: what the connection sees becomes durable.
commit_chunk_Skipped(view, committed) == committed

commit_chunk(view, committed) == view

\* The names the table can hold: cleaned raw names.
CleanNames == {clean_item_name(n) : n \in RawNames}

\* The curated dictionaries: any set of names, each with its translation.
Dictionaries == {[k \in K |-> Curated(k)] : K \in SUBSET CleanNames}

\* The tables an ingest can leave.
Tables(n) == {ExpectedTable(f) : f \in DataFrames(n)}

InitEnrich ==
    /\ fastfood \in Tables(MaxTableRows)
    /\ durable = fastfood
    /\ table0 = fastfood
    /\ dict_translations \in Dictionaries
    /\ mem \in MemInputs(0, MaxLoadRowBytes, MaxLoadAvail)
    /\ plan = NONE /\ eplan = NONE
    /\ csv_file = <<>> /\ lpc = "idle" /\ failed_chunk = NONE /\ log = <<>>
    /\ chunk_size = NONE /\ pos = 0 /\ chunk_index = 0 /\ err = ""
    /\ cur_chunk = <<>> /\ ti = 0 /\ epc = "start" /\ calls = <<>> /\ fault = FALSE
    /\ CleanIdle /\ DropIdle /\ ClassIdle /\ MainIdle

\* line 118
EnrichStart ==
    /\ epc = "start"
    /\ chunk_size' = Translator_calculate_chunk_size(mem)
    /\ epc' = "fetch"
    /\ UNCHANGED <<dict_translations, table0, cur_chunk, ti, calls, fault>>
    /\ UNCHANGED <<csv_file, pos, chunk_index, lpc, err, failed_chunk, log>>
    /\ UNCHANGED <<cleanVars, dropVars, planVars, dbVars>>
    /\ UNCHANGED <<classVars, mainVars>>

\* line 122: the next chunk of pd.read_sql_query(..., chunksize=chunk_size)
FetchChunk ==
    /\ epc = "fetch" /\ pos < Len(fastfood)
    /\ cur_chunk' = read_chunk(fastfood, pos, chunk_size)
    /\ pos' = pos + Len(cur_chunk')
    /\ ti' = 1
    /\ epc' = "translate"
    /\ UNCHANGED <<dict_translations, table0, calls, fault>>
    /\ UNCHANGED <<csv_file, chunk_size, chunk_index, lpc, err, failed_chunk, log>>
    /\ UNCHANGED <<cleanVars, dropVars, planVars, dbVars>>
    /\ UNCHANGED <<classVars, mainVars>>

\* line 123: chunk['item'].apply(translator.translate_item), one item.  The
\* external translator may fail at any of its calls.
TranslateItem ==
    /\ epc = "translate"
    /\ \E fail_at \in 0..Len(split(cur_chunk[ti].item)) :
        LET r == translate_item(cur_chunk[ti].item, dict_translations, fail_at)
        IN  /\ calls' = calls \o r.calls
            /\ fault' = (fault \/ (fail_at >= 1 /\ Len(r.calls) >= fail_at))
            /\ IF r.ok
               THEN /\ cur_chunk' = [cur_chunk EXCEPT ![ti].item_gr = r.text]
                    /\ IF ti = Len(cur_chunk)
                       THEN ti' = 1 /\ epc' = "update"
                       ELSE ti' = ti + 1 /\ epc' = "translate"
                    /\ err' = err
               ELSE /\ epc' = "failed" /\ err' = "translate"
                    /\ UNCHANGED <<cur_chunk, ti>>
    /\ UNCHANGED <<dict_translations, table0>>
    /\ UNCHANGED <<csv_file, chunk_size, pos, chunk_index, lpc, failed_chunk, log>>
    /\ UNCHANGED <<cleanVars, dropVars, planVars, dbVars>>
    /\ UNCHANGED <<classVars, mainVars>>

\* lines 126-127: one row's UPDATE succeeds.
UpdateRow ==
    /\ epc = "update" /\ ti <= Len(cur_chunk)
    /\ fastfood' = update_item_gr(fastfood, cur_chunk[ti].id, cur_chunk[ti].item_gr)
    /\ ti' = ti + 1
    /\ UNCHANGED <<durable, dict_translations, table0, cur_chunk, epc, calls, fault>>
    /\ UNCHANGED <<cleanVars, dropVars, planVars, loadVars>>
    /\ UNCHANGED <<classVars, mainVars>>

\* lines 126-127: one row's UPDATE raises; nothing catches it.
UpdateRowFails ==
    /\ epc = "update" /\ ti <= Len(cur_chunk)
    /\ epc' = "failed" /\ err' = "update"
    /\ UNCHANGED <<dict_translations, table0, cur_chunk, ti, calls, fault>>
    /\ UNCHANGED <<csv_file, chunk_size, pos, chunk_index, lpc, failed_chunk, log>>
    /\ UNCHANGED <<cleanVars, dropVars, planVars, dbVars>>
    /\ UNCHANGED <<classVars, mainVars>>

\* line 130
CommitChunk ==
    /\ epc = "update" /\ ti > Len(cur_chunk)
    /\ durable' = commit_chunk(fastfood, durable)
    /\ chunk_index' = chunk_index + 1
    /\ epc' = "fetch"
    /\ UNCHANGED <<fastfood, dict_translations, table0, cur_chunk, ti, calls, fault>>
    /\ UNCHANGED <<csv_file, chunk_size, pos, lpc, err, failed_chunk, log>>
    /\ UNCHANGED <<cleanVars, dropVars, planVars>>
    /\ UNCHANGED <<classVars, mainVars>>

\* line 132
EnrichDone ==
    /\ epc = "fetch" /\ pos = Len(fastfood)
    /\ epc' = "done"
    /\ UNCHANGED <<dict_translations, table0, cur_chunk, ti, calls, fault>>
    /\ UNCHANGED <<cleanVars, dropVars, planVars, loadVars, dbVars>>
    /\ UNCHANGED <<classVars, mainVars>>

NextEnrich ==
    \/ EnrichStart
    \/ FetchChunk
    \/ TranslateItem
    \/ UpdateRow
    \/ UpdateRowFails
    \/ CommitChunk
    \/ EnrichDone

SpecEnrich == InitEnrich /\ [][NextEnrich]_vars

-----------------------------------------------------------------------------
(* Properties of translate_item and populate_item_gr_column (SpecEnrich). *)

\* The item TranslateItem is about to translate.
CurItem == cur_chunk[ti].item

\* The rows of a table with the given id.
RowsWithId(table, id) == {i \in 1..Len(table) : table[i].id = id}

\* C8: for an item that is a key of the curated dictionary translate_item
\* returns the curated value and gives no word to the external translator;
\* words are given to it only for items that are not keys.
C8_DictionaryHit ==
    [][ /\ (epc = "translate" /\ CurItem \in DOMAIN dict_translations) =>
              /\ calls' = calls
              /\ epc' # "failed"
              /\ cur_chunk'[ti].item_gr = dict_translations[CurItem]
              /\ cur_chunk'[ti].item_gr = Curated(CurItem)
        /\ calls' # calls =>
              epc = "translate" /\ CurItem \notin DOMAIN dict_translations
      ]_vars

\* C8: a chunk whose first item was found in the dictionary and whose second
\* was not: only the words of the second went to the external translator.
C8_Witness ==
    /\ epc = "update"
    /\ Len(cur_chunk) >= 2
    /\ cur_chunk[1].item \in DOMAIN dict_translations
    /\ cur_chunk[1].item_gr = Curated(cur_chunk[1].item)
    /\ cur_chunk[2].item \notin DOMAIN dict_translations
    /\ calls = split(cur_chunk[2].item)
    /\ calls # <<>>

\* The translation of each word of a sequence of words.
TranslatedWords(words) ==
    [i \in 1..Len(words) |-> translator_translate(words[i])]

\* C9: for an item that is not a dictionary key, translate_item gives every
\* whitespace-separated token to the external translator, once and in order,
\* and returns the translations joined by single spaces; if a call fails the
\* translation fails as a whole: no text is returned for the item, the run is
\* aborted (it takes no further step) and no translation of the item is
\* written to the table.
C9_WordByWord ==
    /\ [][ (epc = "translate" /\ CurItem \notin DOMAIN dict_translations) =>
             LET words == split(CurItem)
             IN  \/ /\ epc' # "failed"
                    /\ ~fault'
                    /\ calls' = calls \o words
                    /\ cur_chunk'[ti].item_gr = join(TranslatedWords(words))
                    /\ CurItem = <<LetterA, Space, Digit6>> =>
                         /\ calls' = calls \o << <<LetterA>>, <<Digit6>> >>
                         /\ cur_chunk'[ti].item_gr =
                                <<"el", LetterA, Space, "el", Digit6>>
                 \/ /\ epc' = "failed" /\ err' = "translate"
                    /\ fault'
                    /\ \E k \in 1..Len(words) : calls' = calls \o SubSeq(words, 1, k)
                    /\ UNCHANGED <<cur_chunk, ti, fastfood, durable>>
         ]_vars
    /\ [](fault =>
             /\ epc = "failed" /\ err = "translate"
             /\ cur_chunk[ti].item_gr = NaN
             /\ \A i \in RowsWithId(fastfood, cur_chunk[ti].id) :
                    fastfood[i].item_gr = NaN /\ durable[i].item_gr = NaN)
    /\ [][epc # "failed"]_vars

\* C9: the external translator fails at the second word of an item, after a
\* chunk was committed.
C9_Witness ==
    /\ fault /\ epc = "failed"
    /\ chunk_index >= 1
    /\ Len(split(cur_chunk[ti].item)) = 2
    /\ calls[Len(calls)] = split(cur_chunk[ti].item)[2]

\* C10: the committed table always has the rows it had at the start, changed
\* in item_gr only; the rows of the chunks committed so far (chunks
\* 0..chunk_index-1) have a translated name and all later rows have none, so a
\* run that fails in chunk i leaves chunks 0..i-1 enriched and the rest
\* untouched; when the run completes every row has a translated name.
C10_CommitPerChunk ==
    epc # "idle" =>
        /\ Len(durable) = Len(table0)
        /\ \A i \in 1..Len(durable) :
              /\ [durable[i] EXCEPT !.item_gr = NaN] = table0[i]
              /\ (i <= chunk_index * chunk_size) = (durable[i].item_gr # NaN)
        /\ epc = "done" =>
              /\ \A i \in 1..Len(durable) : durable[i].item_gr # NaN
              /\ fastfood = durable

\* C10: an UPDATE fails in a later chunk after another row of that chunk was
\* updated: the update is visible to the connection but not committed.
C10_Witness ==
    /\ epc = "failed" /\ err = "update"
    /\ chunk_index >= 1
    /\ ti >= 2
    /\ fastfood # durable
    /\ durable[1].item_gr # NaN
    /\ durable[Len(durable)].item_gr = NaN

-----------------------------------------------------------------------------
(* The two chunk plans compared (SpecPlan). *)

\* C14: for the same row count, per-row footprint, available memory and
\* fraction, TranslatorModule.calculate_chunk_size and
\* DataLoader.calculate_chunk_size return the same chunk size (stated here for
\* a source of at least one row and an ingestion chunk size of at least 1).
C14_SameChunkPlan ==
    (plan # NONE /\ eplan # NONE /\ mem.rows >= 1 /\ plan >= 1) => eplan = plan

-----------------------------------------------------------------------------
(* Classifier.  The model has one of the seven features, calories.  A       *)
(* feature value is a number, or text that pd.to_numeric(errors='coerce')   *)
(* turns into NaN (BadNum), or missing (NaNum).                             *)

BadNum == 0 - 2

\* line 25
category_mapping ==
    (0 :> <<"Side">>) @@ (1 :> <<"Dessert">>) @@ (2 :> <<"Main">>)

\* line 54: KMeans(...) is built with the library's default iteration cap
max_iter == 300

\* lines 43-47: the indices of the rows whose features are all numeric
is_numeric(v) == v # NaNum /\ v # BadNum

complete_rows_All(table) == [i \in 1..Len(table) |-> i]

RECURSIVE complete_rows_from(_, _)
complete_rows_from(table, i) ==
    IF i > Len(table) THEN <<>>
    ELSE (IF is_numeric(table[i].calories) THEN <<i>> ELSE <<>>)
            \o complete_rows_from(table, i + 1)

complete_rows(table) == complete_rows_from(table, 1)

RECURSIVE SeqSum(_)
SeqSum(xs) == IF xs = <<>> THEN 0 ELSE Head(xs) + SeqSum(Tail(xs))

Abs(x) == IF x < 0 THEN 0 - x ELSE x

\* lines 50-51: StandardScaler().fit_transform on one column gives
\* (x - mean) / std, and x - mean when std is 0.  The model keeps the numbers
\* whole by scaling every value by the same positive factor n * std (n when
\* std is 0): n * x - sum.  Nearest-centroid comparisons are unchanged by it.
scaled_features(xs) ==
    [i \in 1..Len(xs) |-> Len(xs) * xs[i] - SeqSum(xs)]

\* A centroid is a fraction <<numerator, denominator>>.  The distance of z to
\* centroid c is Abs(z * c[2] - c[1]) / c[2].
Closer(z, c, d) ==
    Abs(z * c[2] - c[1]) * d[2] < Abs(z * d[2] - d[1]) * c[2]

\* The nearest centroid of z, the lowest index on a tie; cluster ids start
\* at 0.
nearest(z, centers) ==
    (CHOOSE j \in 1..Len(centers) :
        \A l \in 1..Len(centers) :
            IF l < j THEN Closer(z, centers[j], centers[l])
            ELSE ~Closer(z, centers[l], centers[j])) - 1

assign(zs, centers) == [i \in 1..Len(zs) |-> nearest(zs[i], centers)]

\* The mean of each cluster's members; an empty cluster keeps its centroid.
update_centers(zs, labels, centers) ==
    [j \in 1..Len(centers) |->
        LET members == SelectSeq([i \in 1..Len(zs) |-> i],
                                 LAMBDA i : labels[i] = j - 1)
        IN  IF members = <<>> THEN centers[j]
            ELSE << SeqSum([m \in 1..Len(members) |-> zs[members[m]]]),
                    Len(members) >>]

\* Assign and recompute until the assignment stops changing or max_iter
\* iterations are done.
RECURSIVE lloyd(_, _, _, _)
lloyd(zs, centers, labels, n_iter) ==
    LET new_centers == update_centers(zs, labels, centers)
        new_labels  == assign(zs, new_centers)
    IN  IF new_labels = labels \/ n_iter >= max_iter
        THEN [labels |-> new_labels, centers |-> new_centers, n_iter |-> n_iter]
        ELSE lloyd(zs, new_centers, new_labels, n_iter + 1)

\* The initial centroids: the points at the drawn indices.  With
\* random_state=0 the draw is the seeded generator's; fresh is what an
\* unseeded generator would draw.
kmeans_init_Unseeded(seeded, fresh) == fresh

kmeans_init(seeded, fresh) == seeded

\* lines 54-55: KMeans(n_clusters, random_state=0).fit_predict(scaled)
fit_predict(zs, draw) ==
    LET centers == [j \in 1..Len(draw) |-> <<zs[draw[j]], 1>>]
    IN  lloyd(zs, centers, assign(zs, centers), 1)

\* line 58: Series.map(category_mapping); an id that is no key becomes NaN
map_category(id) ==
    IF id \in DOMAIN category_mapping THEN category_mapping[id] ELSE NaN

\* The draws of k initial points among n: k distinct indices, in order.
Draws(n, k) ==
    {d \in [1..k -> 1..n] : \A a, b \in 1..k : a # b => d[a] # d[b]}

\* UPDATE fastfood SET category = ? WHERE id = ?  (database.py line 146)
update_category(table, id, category) ==
    [i \in 1..Len(table) |->
        IF table[i].id = id THEN [table[i] EXCEPT !.category = category]
        ELSE table[i]]

\* database.py lines 145-146: one UPDATE per classified row, in order
RECURSIVE write_categories(_, _, _, _)
write_categories(table, rows, labels, n) ==
    IF n = 0 THEN table
    ELSE update_category(write_categories(table, rows, labels, n - 1),
                         table[rows[n]].id, map_category(labels[n]))

\* The feature values of the stored rows: two numbers, an unparsable text and
\* a missing value.
FeatureValues == {100, 900, BadNum, NaNum}

\* Two runs over the same table are compared.
Runs == {1, 2}

\* Classifier(conn, n_clusters): line 12, default 3
ClusterCounts == {2, 3, 4}

\* The tables that ingesting a source of at most n rows leaves.
ClassTables(n) ==
    {to_sql(<<>>, f) :
        f \in UNION {[1..m -> [item : {<<LetterA>>}, calories : FeatureValues]]
                        : m \in 0..n}}

\* classify_items, lines 27-64: the classified rows and their cluster ids
classify_items(table, draw) ==
    LET rows == complete_rows(table)
        zs   == scaled_features([i \in 1..Len(rows) |-> table[rows[i]].calories])
        fit  == fit_predict(zs, draw)
    IN  [rows |-> rows, zs |-> zs, labels |-> fit.labels,
         centers |-> fit.centers, n_iter |-> fit.n_iter]

\* KMeans raises ValueError when there are fewer samples than clusters.
classify_raises(table, k) == Len(complete_rows(table)) < k

InitClassify ==
    /\ fastfood \in ClassTables(MaxClassRows)
    /\ durable = fastfood
    /\ class_table0 = fastfood
    /\ n_clusters \in ClusterCounts
    /\ rng \in IF classify_raises(fastfood, n_clusters) THEN {<<>>}
               ELSE Draws(Len(complete_rows(fastfood)), n_clusters)
    /\ cluster_runs = <<>>
    /\ cpc = "ready"
    /\ CleanIdle /\ DropIdle /\ PlanIdle /\ LoadIdle /\ EnrichIdle /\ MainIdle

\* database.py lines 134-149 with classifier.py lines 27-64, one whole run
ClassifyItemsAndAddCategory ==
    /\ cpc = "ready"
    /\ Len(cluster_runs) + 1 \in Runs
    /\ ~classify_raises(fastfood, n_clusters)
    /\ \E init \in {kmeans_init(rng, fresh) :
                        fresh \in Draws(Len(complete_rows(fastfood)), n_clusters)} :
       \E res \in {classify_items(fastfood, init)} :
         /\ fastfood' = write_categories(fastfood, res.rows, res.labels,
                                         Len(res.rows))
         /\ durable' = fastfood'
         /\ cluster_runs' = Append(cluster_runs, res)
    /\ cpc' = "done"
    /\ UNCHANGED <<n_clusters, rng, class_table0>>
    /\ UNCHANGED <<cleanVars, dropVars, planVars, loadVars, enrichVars, mainVars>>

\* classifier.py line 55 raises: nothing is written (database.py line 143)
ClassifyRaises ==
    /\ cpc = "ready"
    /\ classify_raises(fastfood, n_clusters)
    /\ cpc' = "failed"
    /\ UNCHANGED <<n_clusters, rng, class_table0, cluster_runs, dbVars>>
    /\ UNCHANGED <<cleanVars, dropVars, planVars, loadVars, enrichVars, mainVars>>

\* The caller classifies the same table once more.
ClassifyAgain ==
    /\ cpc = "done" /\ mpc = "idle"
    /\ Len(cluster_runs) + 1 \in Runs
    /\ cpc' = "ready"
    /\ UNCHANGED <<n_clusters, rng, class_table0, cluster_runs, dbVars>>
    /\ UNCHANGED <<cleanVars, dropVars, planVars, loadVars, enrichVars, mainVars>>

NextClassify == ClassifyItemsAndAddCategory \/ ClassifyRaises \/ ClassifyAgain

SpecClassify == InitClassify /\ [][NextClassify]_vars

\* C11: classification leaves the number of rows and every column other than
\* category as they were, gives a category to exactly the rows whose features
\* are all numeric, and leaves the category of every other row NULL.
C11_OnlyCompleteRowsLabelled ==
    /\ Len(fastfood) = Len(class_table0)
    /\ \A i \in 1..Len(fastfood) :
         /\ [fastfood[i] EXCEPT !.category = NaN] = class_table0[i]
         /\ ~is_numeric(class_table0[i].calories) => fastfood[i].category = NaN
         /\ (cluster_runs # <<>> /\ is_numeric(class_table0[i].calories))
               => fastfood[i].category \in
                    {map_category(id) : id \in 0..(n_clusters - 1)}

C11_Witness ==
    /\ cluster_runs # <<>>
    /\ \E i, j \in 1..Len(fastfood) :
         /\ fastfood[i].calories = BadNum /\ fastfood[i].category = NaN
         /\ fastfood[j].category = <<"Main">>

C17_EveryClusterHasLabel ==
    \A r \in 1..Len(cluster_runs) :
        \A i \in 1..Len(cluster_runs[r].rows) :
            fastfood[cluster_runs[r].rows[i]].category # NaN

-----------------------------------------------------------------------------
(* SpecMain: main.py lines 24-47 on any source of at most MaxCsvRows rows,  *)
(* a new database, and collaborators that may fail.                         *)

\* main.py line 33: memory_fraction=0.5
MainFraction == <<1, 2>>

\* database.py lines 163-167: the header and one line per row of
\* SELECT item, item_gr, category FROM fastfood
Header == <<"item", "item_gr", "category">>

export_classification_to_csv(table) ==
    <<Header>> \o [i \in 1..Len(table) |->
                     <<table[i].item, table[i].item_gr, table[i].category>>]

\* An export file left by an earlier run.
StaleArtifact == <<Header, <<"stale">>>>

\* main.py lines 26-33: the database is new, the table is created and
\* load_csv_to_db is called.
InitMain ==
    /\ csv_file \in DataFrames(MaxCsvRows)
    /\ mem \in {m \in MemInputs(MaxCsvRows, MaxLoadRowBytes, MaxLoadAvail) :
                    m.rows = Len(csv_file) /\ m.frac = MainFraction}
    /\ plan = NONE /\ eplan = NONE
    /\ chunk_size = NONE /\ pos = 0 /\ chunk_index = 0
    /\ lpc = "start" /\ err = "" /\ failed_chunk = NONE /\ log = <<>>
    /\ mpc = "ingest" /\ artifact \in {<<>>, StaleArtifact}
    /\ CleanIdle /\ DropIdle /\ DbIdle /\ EnrichIdle /\ ClassIdle

\* main.py line 38, translator.py line 32: the curated file is read, and
\* main.py line 39 calls populate_item_gr_column.
LoadDictionary ==
    /\ mpc = "ingest" /\ lpc = "done"
    /\ dict_translations' \in Dictionaries
    /\ table0' = fastfood
    /\ chunk_size' = NONE /\ pos' = 0 /\ chunk_index' = 0
    /\ epc' = "start" /\ mpc' = "enrich"
    /\ UNCHANGED <<cur_chunk, ti, calls, fault, artifact>>
    /\ UNCHANGED <<csv_file, lpc, err, failed_chunk, log>>
    /\ UNCHANGED <<cleanVars, dropVars, planVars, dbVars, classVars>>

\* translator.py lines 44-45: pd.read_csv raises on a missing or unreadable
\* file, or the file has no item or item_gr column; main ends.
LoadDictionaryFails ==
    /\ mpc = "ingest" /\ lpc = "done"
    /\ mpc' = "failed" /\ err' = "dictionary"
    /\ UNCHANGED <<csv_file, chunk_size, pos, chunk_index, lpc, failed_chunk, log>>
    /\ UNCHANGED <<cleanVars, dropVars, planVars, dbVars, enrichVars, classVars>>
    /\ UNCHANGED artifact

\* main.py lines 44-45: Classifier(conn=conn), with the default n_clusters,
\* and classify_items_and_add_category is called.
NewClassifier ==
    /\ mpc = "enrich" /\ epc = "done"
    /\ n_clusters' = 3
    /\ rng' \in IF classify_raises(fastfood, n_clusters') THEN {<<>>}
                ELSE Draws(Len(complete_rows(fastfood)), n_clusters')
    /\ class_table0' = fastfood
    /\ cpc' = "ready" /\ mpc' = "classify"
    /\ UNCHANGED <<cluster_runs, artifact>>
    /\ UNCHANGED <<cleanVars, dropVars, planVars, loadVars, dbVars, enrichVars>>

\* main.py line 46, database.py lines 151-169: an existing file is removed
\* and the export is written.
ExportClassificationToCsv ==
    /\ mpc = "classify" /\ cpc = "done"
    /\ artifact' = export_classification_to_csv(fastfood)
    /\ mpc' = "done"
    /\ UNCHANGED <<cleanVars, dropVars, planVars, loadVars, dbVars, enrichVars>>
    /\ UNCHANGED classVars

NextMain ==
    \/ LoadStart
    \/ ChunkCleanRaises
    \/ ChunkInserted
    \/ ChunkInsertFails
    \/ LoadDone
    \/ LoadDictionary
    \/ LoadDictionaryFails
    \/ EnrichStart
    \/ FetchChunk
    \/ TranslateItem
    \/ UpdateRow
    \/ UpdateRowFails
    \/ CommitChunk
    \/ EnrichDone
    \/ NewClassifier
    \/ ClassifyItemsAndAddCategory
    \/ ClassifyRaises
    \/ ExportClassificationToCsv

SpecMain == InitMain /\ [][NextMain]_vars

\* A source of three rows of which exactly one has a missing nutrition field
\* and none a missing name.
OneNutritionFieldMissing ==
    /\ Len(csv_file) = 3
    /\ \A i \in 1..3 : csv_file[i].item # NaN
    /\ Cardinality({i \in 1..3 : csv_file[i].calories = NaNum}) = 1

\* C13: a run on such a source in which no other step has failed does not
\* fail in classification, and once it is done storage holds two rows, both
\* translated and both with a category, and the export file holds the header
\* and one line for each of them, whatever file was there before.
C13_EndToEnd ==
    (OneNutritionFieldMissing /\ err = "") =>
        /\ cpc # "failed"
        /\ mpc = "done" =>
             /\ Len(fastfood) = 2 /\ durable = fastfood
             /\ \A i \in 1..2 :
                  fastfood[i].item_gr # NaN /\ fastfood[i].category # NaN
             /\ artifact = export_classification_to_csv(fastfood)
             /\ Len(artifact) = 3

\* C16: when loading the curated dictionary fails no row has been appended
\* to storage or updated in it, and no translation is written in the run.
C16_DictionaryBeforeMutation ==
    err = "dictionary" =>
        /\ fastfood = <<>> /\ durable = <<>>
        /\ \A i \in 1..Len(fastfood) : fastfood[i].item_gr = NaN

====
